---- MODULE Spec2Model ----
(***************************************************************************)
(* Laser-line height triangulation core of vision_system-Plugin:           *)
(*   LaserDetectionService.detect        (acquisition protocol)            *)
(*   LaserDetectionCalibration.calibrate (calibration engine)              *)
(*   HeightMeasuringService              (height inference service)        *)
(* The core is single-threaded: one operation is in flight at a time and   *)
(* calibrate()/measure_at() call detect() and continue when it returns.    *)
(***************************************************************************)
EXTENDS Integers, Sequences, FiniteSets, TLC

(***************************************************************************)
(* Configuration values (config.py), scaled down.                          *)
(***************************************************************************)
detection_samples == 2
max_detection_retries == 2
calibration_max_attempts == 2
num_iterations == 4
max_polynomial_degree == 2
step_size_mm == 1
min_intensity == 10

(* Bounds of the environment the model explores: calibrate() is called    *)
(* again only while at most MaxStale samples are left in calibration_data, *)
(* cross-validated errors range over 0 .. MaxMse, and the count of         *)
(* detect() calls within one calibration step saturates at DetectCallCap.  *)
MaxStale == 1
MaxMse == 1
DetectCallCap == calibration_max_attempts + 1

(***************************************************************************)
(* Optional values: Python's None is the empty tuple, a present value v is *)
(* the one-element tuple <<v>>.                                            *)
(***************************************************************************)
None == << >>
Some(v) == << v >>
Val(o) == o[1]

(* Pixel x-coordinates a ridge point can take; a point is (x, y). *)
XCoords == { 0, 1 }
Points == { << x, 0 >> : x \in XCoords }

(* Result triple of detect_laser_line / detect: (mask, bright, closest). *)
NoneResult == [mask |-> None, bright |-> None, closest |-> None]

(* What the peak detector can return for two non-None median frames: mask  *)
(* and bright are always built, closest is None when no scan-line passes.  *)
DetectorOutputs ==
    { [mask |-> Some("mask"), bright |-> Some("bright"), closest |-> c] :
        c \in {None} \cup { Some(p) : p \in Points } }

(* LaserDetector.__init__, with the record of the last direct call of one  *)
(* of its methods: op, the arguments and the returned value.               *)
DetectorInit ==
    [last_closest_point |-> None, lase_bright_point |-> None,
     op |-> "none", args |-> << >>, ret |-> << >>]

(* LaserDetectionConfig() with its defaults (config.py), counts scaled. *)
DefaultConfig ==
    [min_intensity |-> min_intensity, default_axis |-> "y",
     detection_delay_ms |-> 200, image_capture_delay_ms |-> 10,
     detection_samples |-> detection_samples,
     max_detection_retries |-> max_detection_retries]

(* LaserDetectionService.__init__: the bundle is stored as given. *)
SvcInit == [config |-> DefaultConfig, laser_status |-> 0]

(* FrameGrabber.__init__: the buffer is empty. *)
CamInit == [latest |-> None]

(* No second detect() is in flight. *)
Det2Init == [pc |-> "idle", attempt |-> 0]

(* A positioner pose is [X, Y, Z, RX, RY, RZ]. *)
InitialPoses == { << 0, 0, 9, 180, 0, 0 >> }

(* JSON values of a calibration file: a key can be absent (None), hold     *)
(* null, or hold a number / list.                                          *)
Null == << "null" >>
Num(n) == << "num", n >>
IsNum(v) == Len(v) = 2 /\ v[1] = "num"

VARIABLES
    laser,      \* last command sent to the laser actuator: "none", "off", "on"
    robot,      \* pose the positioner is at
    storage,    \* the calibration file on disk
    det,        \* LaserDetectionService.detect() frame
    obs,        \* observation counters of the detect() call in progress
    cal,        \* LaserDetectionCalibration fields and calibrate() frame
    run,        \* observation counters of the calibrate() call in progress
    hms,        \* HeightMeasuringService fields and the result of its last call
    call,       \* observation counters of the HeightMeasuringService call
    detector,   \* LaserDetector fields and the record of its last direct call
    svc,        \* LaserDetectionService fields: config, laser_status
    cam,        \* frame source: the latest frame of the grabber thread
    det2        \* a second detect() in flight on the same laser

vars == << laser, robot, storage, det, obs, cal, run, hms, call, detector, svc, cam, det2 >>

(* Everything the steps inside detect() leave alone. *)
outsideDetect == << robot, storage, cal, run, hms, call, detector, svc, cam, det2 >>

(* What the calibration engine leaves alone. *)
outsideCal == << det, obs, hms, call, detector, svc, cam, det2 >>

DetIdle ==
    [pc |-> "idle", caller |-> "none", attempt |-> 0, i |-> 0,
     off_frames |-> 0, on_frames |-> 0, off_med |-> FALSE,
     off_srcs |-> { }, on_srcs |-> { }, ret |-> NoneResult]

ObsInit ==
    [offCmds |-> 0, onCmds |-> 0, detectorCalls |-> 0,
     detectorHits |-> 0, firstHit |-> NoneResult]

(* LaserDetectionCalibration.__init__ *)
CalInit ==
    [pc |-> "idle", zero_reference_coords |-> None, calibration_data |-> << >>,
     poly_model |-> None, poly_transform |-> None, poly_degree |-> None,
     poly_mse |-> None, robot_initial_position |-> None,
     prev_reading |-> None, i |-> 0, max_attempts |-> 0, ret |-> None]

RunInit(st) ==
    [zero |-> "pending", stepCalls |-> 0, downCmds |-> 0,
     appended |-> 0, fitted |-> FALSE, saveCalls |-> 0, saveOk |-> FALSE,
     storageAtStart |-> st, wait |-> "none", mses |-> << >>]

(* A calibration file as save_calibration writes it. *)
GoodPolynomial ==
    [coefficients |-> Some(<< "list", << 0, -1 >> >>),
     intercept |-> Some(Num(0)), degree |-> Some(Num(1)), mse |-> Some(Num(0))]

GoodData ==
    [zero_reference_coords |-> Some(<< 1, 0 >>),
     calibration_data |-> << << 0, 0 >>, << 1, 0 >>, << 2, 0 >>, << 3, 0 >>,
                             << 4, 0 >> >>,
     robot_initial_position |-> Some(<< 0, 0, 9, 180, 0, 0 >>),
     polynomial |-> Some(GoodPolynomial)]

GoodFile == [file |-> "complete", data |-> Some(GoodData)]

NoFile == [file |-> "absent", data |-> None]

(* Files the inference service can find under its calibration_filename:    *)
(* none, an unparseable one, one as the engine writes it, or one with a    *)
(* missing or malformed polynomial section (a key missing, mse null, more  *)
(* coefficients than degree + 1), without the calibration pose, or         *)
(* calibrated at a pose with another tool orientation.                     *)
CalibrationFiles ==
    { NoFile,
      [file |-> "partial", data |-> None],
      GoodFile,
      [file |-> "complete", data |->
          Some([GoodData EXCEPT !.zero_reference_coords = Some(<< 0, 0 >>)])],
      [file |-> "complete", data |-> Some([GoodData EXCEPT !.polynomial = None])],
      [file |-> "complete", data |->
          Some([GoodData EXCEPT !.polynomial =
                  Some([GoodPolynomial EXCEPT !.degree = None])])],
      [file |-> "complete", data |->
          Some([GoodData EXCEPT !.polynomial =
                  Some([GoodPolynomial EXCEPT !.intercept = None])])],
      [file |-> "complete", data |->
          Some([GoodData EXCEPT !.polynomial =
                  Some([GoodPolynomial EXCEPT !.mse = Some(Null)])])],
      [file |-> "complete", data |->
          Some([GoodData EXCEPT !.polynomial =
                  Some([GoodPolynomial EXCEPT
                          !.coefficients = Some(<< "list", << 0, -1, 0 >> >>)])])],
      [file |-> "complete", data |->
          Some([GoodData EXCEPT !.robot_initial_position = None])],
      [file |-> "complete", data |->
          Some([GoodData EXCEPT
                  !.robot_initial_position = Some(<< 1, 1, 8, 90, 0, 45 >>)])] }

(* HeightMeasuringService.__init__, before load_calibration_curve() *)
HmsInit ==
    [pc |-> "unbuilt", poly_model |-> None, poly_transform |-> None,
     poly_degree |-> None, mse |-> None, zero_reference_z |-> None,
     reference_xy |-> None, zero_reference_coords |-> None,
     loadFailed |-> FALSE, op |-> "none", ret |-> None]

CallInit ==
    [moveCmds |-> 0, detectCalls |-> 0, pixelToMmCalls |-> 0, closest |-> None,
     wait |-> "none", x |-> None, y |-> None, target |-> None]

Init ==
    /\ laser = "none"
    /\ robot \in InitialPoses
    /\ storage \in { NoFile, GoodFile }
    /\ det = DetIdle
    /\ obs = ObsInit
    /\ cal = CalInit
    /\ run = RunInit(storage)
    /\ hms = HmsInit
    /\ call = CallInit
    /\ detector = DetectorInit
    /\ svc = SvcInit
    /\ cam = CamInit
    /\ det2 = Det2Init

(* The inference service starts in its own program, on any file. *)
InitHms ==
    /\ laser = "none"
    /\ robot \in InitialPoses
    /\ storage \in CalibrationFiles
    /\ det = DetIdle
    /\ obs = ObsInit
    /\ cal = CalInit
    /\ run = RunInit(storage)
    /\ hms = HmsInit
    /\ call = CallInit
    /\ detector = DetectorInit
    /\ svc = SvcInit
    /\ cam = CamInit
    /\ det2 = Det2Init

(***************************************************************************)
(* detect(): entry.  Called by the top level, calibrate() or measure_at(). *)
(***************************************************************************)
DetectEnter(c) ==
    /\ det' = [DetIdle EXCEPT !.pc = "attempt", !.caller = c]
    /\ obs' = ObsInit

AttemptsLeft_OneMore(a) == a <= svc.config.max_detection_retries

(* for attempt in range(max_retries) *)
AttemptsLeft(a) == a < svc.config.max_detection_retries

PhaseShort_OffByOne(n) == n < svc.config.detection_samples - 1

(* len(off_frames) < samples / len(on_frames) < samples *)
PhaseShort(n) == n < svc.config.detection_samples

PollsLeft_OneFewer(i) == i < svc.config.detection_samples - 1

(* for i in range(samples) *)
PollsLeft(i) == i < svc.config.detection_samples

(* time.sleep(ms / 1000) returns for ms >= 0 and raises ValueError below. *)
Sleeps(ms) == ms >= 0

(* Loop head: next attempt starts with turnOff and the settle sleep, or    *)
(* the loop is exhausted.                                                  *)
DetectAttempt ==
    /\ det.pc = "attempt"
    /\ IF AttemptsLeft(det.attempt)
       THEN /\ laser' = "off"
            /\ det' = IF Sleeps(svc.config.detection_delay_ms)
                      THEN [det EXCEPT !.pc = "capOff", !.i = 0,
                                       !.off_frames = 0, !.off_med = FALSE,
                                       !.off_srcs = { }, !.on_srcs = { }]
                      ELSE [det EXCEPT !.pc = "raised"]
            /\ obs' = [obs EXCEPT !.offCmds = @ + 1]
            /\ UNCHANGED outsideDetect
       ELSE /\ det' = [det EXCEPT !.pc = "ret", !.ret = NoneResult]
            /\ UNCHANGED << laser, obs, outsideDetect >>

(* What a poll of a live frame source returns: nothing, or a frame that   *)
(* shows the laser as it is now.  A frame is named by the laser state it   *)
(* was taken in.                                                           *)
LiveFrames == { None, Some(laser) }

(* One poll of vision_service.latest_frame in the OFF phase, returning     *)
(* frame: the capture sleep, then the frame is kept unless it is None.     *)
DetectCaptureOffOf(frame) ==
    /\ det.pc = "capOff"
    /\ PollsLeft(det.i)
    /\ det' = IF Sleeps(svc.config.image_capture_delay_ms)
              THEN [det EXCEPT
                      !.i = @ + 1,
                      !.off_frames = IF frame # None THEN @ + 1 ELSE @,
                      !.off_srcs = IF frame # None THEN @ \cup {Val(frame)}
                                   ELSE @]
              ELSE [det EXCEPT !.pc = "raised"]
    /\ UNCHANGED << laser, obs, outsideDetect >>

DetectCaptureOff == \E frame \in LiveFrames : DetectCaptureOffOf(frame)

(* np.stack raises ValueError on an empty list of frames. *)
StackRaises(n) == n = 0

(* End of the OFF phase: shortage check, OFF median, turnOn.  The ON phase *)
(* sleeps and stacks with the same configuration values, so whatever can   *)
(* raise has raised before turnOn.                                         *)
DetectOffDone ==
    /\ det.pc = "capOff"
    /\ ~PollsLeft(det.i)
    /\ IF PhaseShort(det.off_frames)
       THEN /\ det' = [det EXCEPT !.pc = "attempt", !.attempt = @ + 1]
            /\ UNCHANGED << laser, obs, outsideDetect >>
       ELSE IF StackRaises(det.off_frames)
       THEN /\ det' = [det EXCEPT !.pc = "raised"]
            /\ UNCHANGED << laser, obs, outsideDetect >>
       ELSE /\ laser' = "on"
            /\ det' = [det EXCEPT !.pc = "capOn", !.i = 0, !.on_frames = 0,
                                  !.off_med = TRUE]
            /\ obs' = [obs EXCEPT !.onCmds = @ + 1]
            /\ UNCHANGED outsideDetect

(* One poll of vision_service.latest_frame in the ON phase. *)
DetectCaptureOnOf(frame) ==
    /\ det.pc = "capOn"
    /\ PollsLeft(det.i)
    /\ det' = [det EXCEPT
                 !.i = @ + 1,
                 !.on_frames = IF frame # None THEN @ + 1 ELSE @,
                 !.on_srcs = IF frame # None THEN @ \cup {Val(frame)} ELSE @]
    /\ UNCHANGED << laser, obs, outsideDetect >>

DetectCaptureOn == \E frame \in LiveFrames : DetectCaptureOnOf(frame)

ReturnsOnHit_Never(out) == FALSE

(* if closest is not None: return mask, bright, closest *)
ReturnsOnHit(out) == out.closest # None

(* End of the ON phase: shortage check, ON median, peak detector, return. *)
DetectOnDone ==
    /\ det.pc = "capOn"
    /\ ~PollsLeft(det.i)
    /\ IF PhaseShort(det.on_frames)
       THEN /\ det' = [det EXCEPT !.pc = "attempt", !.attempt = @ + 1]
            /\ UNCHANGED obs
       ELSE \E out \in DetectorOutputs :
            /\ obs' = [obs EXCEPT
                 !.detectorCalls = @ + 1,
                 !.detectorHits = IF out.closest # None THEN @ + 1 ELSE @,
                 !.firstHit = IF out.closest # None /\ @ = NoneResult
                              THEN out ELSE @]
            /\ IF ReturnsOnHit(out)
               THEN det' = [det EXCEPT !.pc = "ret", !.ret = out]
               ELSE det' = [det EXCEPT !.pc = "attempt", !.attempt = @ + 1]
    /\ UNCHANGED << laser, outsideDetect >>

(***************************************************************************)
(* detect() as one call, for calibrate() and measure_at(): every result    *)
(* and final laser command the loop above can end with, from attempt a on, *)
(* with l the last laser command sent, for a configuration that validates  *)
(* (no sleep or stack raises).  In each attempt the OFF and the ON         *)
(* phase obtain any number 0 .. detection_samples of frames and the peak   *)
(* detector returns any of its outputs.                                    *)
(***************************************************************************)
FrameCounts == 0 .. svc.config.detection_samples
CanBeShort == \E n \in FrameCounts : PhaseShort(n)
CanBeFull == \E n \in FrameCounts : ~PhaseShort(n)

RECURSIVE DetectFrom(_, _)
DetectFrom(a, l) ==
    IF ~AttemptsLeft(a)
    THEN { [ret |-> NoneResult, laser |-> l] }
    ELSE (IF CanBeShort THEN DetectFrom(a + 1, "off") ELSE { })
         \cup
         (IF CanBeFull
          THEN (IF CanBeShort THEN DetectFrom(a + 1, "on") ELSE { })
               \cup
               (IF CanBeFull
                THEN { [ret |-> out, laser |-> "on"] :
                         out \in { o \in DetectorOutputs : ReturnsOnHit(o) } }
                     \cup
                     (IF \E o \in DetectorOutputs : ~ReturnsOnHit(o)
                      THEN DetectFrom(a + 1, "on") ELSE { })
                ELSE { })
          ELSE { })

DetectCall == DetectFrom(0, laser)

MayEnter_SingleFlight(busy) == ~busy

(* detect() starts with the configuration reads and the loop: it takes no  *)
(* lock and tests no flag, whatever else is using the laser.               *)
MayEnter(busy) == TRUE

(* A direct call of detect() by a client, and its return. *)
DetectCallTop ==
    /\ det.pc = "idle"
    /\ cal.pc = "idle"
    /\ MayEnter(det2.pc # "idle")
    /\ DetectEnter("top")
    /\ UNCHANGED << laser, outsideDetect >>

DetectReturnTop ==
    /\ det.pc = "ret"
    /\ det.caller = "top"
    /\ det' = DetIdle
    /\ obs' = ObsInit
    /\ UNCHANGED << laser, outsideDetect >>

(***************************************************************************)
(* Positioner (external collaborator): a commanded move followed by        *)
(* _waitForRobotToReachPosition, which returns when the pose is reached    *)
(* within the threshold or when the timeout elapses; on a timeout the      *)
(* positioner has not moved.  No caller in this core reads the wait's      *)
(* result.                                                                 *)
(***************************************************************************)
WaitOutcomes == { "reached", "timeout" }

MoveAndWait(target, outcome) ==
    robot' = IF outcome = "reached" THEN target ELSE robot

(* new_pos = current_pos.copy(); new_pos[2] -= mm *)
MovedDown(pose, mm) == [pose EXCEPT ![3] = @ - mm]

(***************************************************************************)
(* Persistent storage (storage.py).  save: True and the file complete, or  *)
(* False with the file untouched (the open failed) or truncated/partial    *)
(* (the dump failed after open(filepath, "w")).                            *)
(***************************************************************************)
SaveOutcomes == { "ok", "unchanged", "partial" }

StorageAfterSave(data, outcome) ==
    CASE outcome = "ok" -> [file |-> "complete", data |-> Some(data)]
      [] outcome = "partial" -> [file |-> "partial", data |-> None]
      [] OTHER -> storage

(***************************************************************************)
(* calibrate(initial_position)                                             *)
(***************************************************************************)
AllIdle == det.pc = "idle" /\ cal.pc = "idle"

(* Entry: move to the initial pose (the wait ending with outcome),         *)
(* remember the pose, go on to detect the zero reference.                  *)
CalibrateCallOn(outcome) ==
    /\ AllIdle
    /\ Len(cal.calibration_data) <= MaxStale
    /\ \E position \in InitialPoses :
          /\ MoveAndWait(position, outcome)
          /\ cal' = [cal EXCEPT !.pc = "zero", !.ret = None,
                                !.robot_initial_position = Some(position)]
          /\ run' = [RunInit(storage) EXCEPT !.wait = outcome]
    /\ UNCHANGED << laser, storage, outsideCal >>

CalibrateCall == CalibrateCallOn("reached")
CalibrateCallTimeout == CalibrateCallOn("timeout")

ZeroMissing_Ignored(closest) == FALSE

(* if self.zero_reference_coords is None: return False *)
ZeroMissing(closest) == closest = None

Seen(closest) == IF closest = None THEN "failed" ELSE "ok"

(* The zero-reference detect(): abort, or record sample (0, 0.0). *)
CalibrateZero ==
    /\ cal.pc = "zero"
    /\ \E d \in DetectCall :
          /\ laser' = d.laser
          /\ IF ZeroMissing(d.ret.closest)
             THEN /\ cal' = [cal EXCEPT !.zero_reference_coords = d.ret.closest,
                                        !.pc = "done", !.ret = Some(FALSE)]
                  /\ run' = [run EXCEPT !.zero = Seen(d.ret.closest)]
             ELSE /\ cal' = [cal EXCEPT
                       !.zero_reference_coords = d.ret.closest,
                       !.calibration_data = Append(@, << 0, 0 >>),
                       !.i = 1, !.pc = "step"]
                  /\ run' = [run EXCEPT !.zero = Seen(d.ret.closest),
                                        !.appended = @ + 1]
    /\ UNCHANGED << robot, storage, outsideCal >>

(* for i in range(1, iterations + 1): move_down_by_mm(step_mm), then       *)
(* max_attempts = calibration_max_attempts; after the sweep, the fit.      *)
(* The wait of a commanded move ends with outcome.                         *)
CalibrateStepOn(outcome) ==
    /\ cal.pc = "step"
    /\ IF cal.i <= num_iterations
       THEN /\ \E posKnown \in BOOLEAN :
                 IF posKnown
                 THEN /\ MoveAndWait(MovedDown(robot, step_size_mm), outcome)
                      /\ run' = [run EXCEPT !.downCmds = @ + 1, !.stepCalls = 0,
                                            !.wait = outcome]
                 ELSE /\ UNCHANGED robot
                      /\ run' = [run EXCEPT !.stepCalls = 0]
            /\ cal' = [cal EXCEPT !.max_attempts = calibration_max_attempts,
                                  !.pc = "loop"]
       ELSE /\ cal' = [cal EXCEPT !.pc = "fit"]
            /\ UNCHANGED << robot, run >>
    /\ UNCHANGED << laser, storage, outsideCal >>

CalibrateStep == CalibrateStepOn("reached")
CalibrateStepTimeout ==
    /\ cal.i <= num_iterations
    /\ CalibrateStepOn("timeout")

PixelDelta_Reversed(zero, closest) == closest[1] - zero[1]

(* delta_pixels = self.zero_reference_coords[0] - closest[0] *)
PixelDelta(zero, closest) == zero[1] - closest[1]

(* if closest is None: ... continue *)
AttemptsAfterNoDetection(max_attempts) == max_attempts

WrongSign_OffByOne(delta) == delta > 1

(* if delta_pixels > 0 *)
WrongSign(delta) == delta > 0

(* if self.prev_reading is not None and delta_pixels > self.prev_reading *)
NonMonotonic(delta, prev) == prev # None /\ delta > Val(prev)

(* The body of `while max_attempts > 0` after detect() returned closest:   *)
(* the engine's fields afterwards and what became of the reading.          *)
AttemptOutcome(c, closest) ==
    IF closest = None
    THEN [cal |-> [c EXCEPT !.max_attempts = AttemptsAfterNoDetection(@)],
          verdict |-> "no_detection"]
    ELSE IF c.zero_reference_coords = None
    THEN [cal |-> [c EXCEPT !.pc = "raised"], verdict |-> "raised"]
    ELSE LET delta == PixelDelta(Val(c.zero_reference_coords), Val(closest))
         IN IF WrongSign(delta)
            THEN [cal |-> [c EXCEPT !.max_attempts = @ - 1],
                  verdict |-> "wrong_sign"]
            ELSE IF NonMonotonic(delta, c.prev_reading)
            THEN [cal |-> [c EXCEPT !.max_attempts = @ - 1,
                                    !.prev_reading = Some(delta)],
                  verdict |-> "non_monotonic"]
            ELSE [cal |-> [c EXCEPT
                             !.prev_reading = Some(delta),
                             !.calibration_data =
                                 Append(@, << c.i * step_size_mm, delta >>),
                             !.max_attempts = 0],
                  verdict |-> "accepted"]

(* One turn of `while max_attempts > 0`: detect() and the loop body; when  *)
(* the loop ends, the next step.                                           *)
CalibrateAttempt ==
    /\ cal.pc = "loop"
    /\ IF cal.max_attempts > 0
       THEN \E d \in DetectCall :
            LET out == AttemptOutcome(cal, d.ret.closest)
                calls == IF run.stepCalls < DetectCallCap
                         THEN run.stepCalls + 1 ELSE run.stepCalls
            IN /\ laser' = d.laser
               /\ cal' = out.cal
               /\ run' = [run EXCEPT
                            !.stepCalls = calls,
                            !.appended = IF out.verdict = "accepted"
                                         THEN @ + 1 ELSE @]
       ELSE /\ cal' = [cal EXCEPT !.i = @ + 1, !.pc = "step"]
            /\ UNCHANGED << laser, run >>
    /\ UNCHANGED << robot, storage, outsideCal >>

(***************************************************************************)
(* pick_best_polynomial_fit / save_calibration                             *)
(***************************************************************************)
(* if not self.calibration_data or len(self.calibration_data) < 3 *)
InsufficientData(data) == Len(data) < 3

(* cross_val_score(..., cv=5): KFold refuses n_splits > n_samples. *)
CvFolds == 5
CrossValRaises(data) == Len(data) < CvFolds

FitStage_NoGuard(data) == "fit"

(* How pick_best_polynomial_fit proceeds on the collected samples. *)
FitStage(data) ==
    IF InsufficientData(data) THEN "abort"
    ELSE IF CrossValRaises(data) THEN "raise"
    ELSE "fit"

(* best_mse = np.inf *)
Inf == MaxMse + 1

Better_OrEqual(mse, best_mse) == mse <= best_mse

(* if mse < best_mse *)
Better(mse, best_mse) == mse < best_mse

(* The degree scan: best_* start at (1, inf) and move on a better mse. *)
RECURSIVE ScanDegrees(_, _, _)
ScanDegrees(degree, best, mses) ==
    IF degree > max_polynomial_degree
    THEN best
    ELSE ScanDegrees(degree + 1,
                     IF Better(mses[degree], best.mse)
                     THEN [degree |-> degree, mse |-> mses[degree]]
                     ELSE best,
                     mses)

PickBest(mses) == ScanDegrees(1, [degree |-> 1, mse |-> Inf], mses)

(* best_model.fit(best_poly.fit_transform(deltas), heights): the refit on  *)
(* the samples in data.  PolynomialFeatures(degree) has degree + 1         *)
(* columns, so coef_ has degree + 1 entries.  The least-squares values     *)
(* themselves are not modelled; fit_on is the sample set fitted on.        *)
FittedModel(degree, data) ==
    [coef |-> [k \in 1 .. degree + 1 |-> IF k = 2 THEN -1 ELSE 0],
     intercept |-> 0,
     fit_on |-> data]

DataToSave_DegreePlusOne(c) ==
    [zero_reference_coords |-> c.zero_reference_coords,
     calibration_data |-> c.calibration_data,
     robot_initial_position |-> c.robot_initial_position,
     polynomial |->
        IF c.poly_model # None
        THEN Some([coefficients |-> Some(<< "list", Val(c.poly_model).coef >>),
                   intercept |-> Some(Num(Val(c.poly_model).intercept)),
                   degree |-> Some(Num(Val(c.poly_degree) + 1)),
                   mse |-> Some(Num(Val(c.poly_mse)))])
        ELSE None]

(* data_to_save of save_calibration *)
DataToSave(c) ==
    [zero_reference_coords |-> c.zero_reference_coords,
     calibration_data |-> c.calibration_data,
     robot_initial_position |-> c.robot_initial_position,
     polynomial |->
        IF c.poly_model # None
        THEN Some([coefficients |-> Some(<< "list", Val(c.poly_model).coef >>),
                   intercept |-> Some(Num(Val(c.poly_model).intercept)),
                   degree |-> Some(Num(Val(c.poly_degree))),
                   mse |-> Some(Num(Val(c.poly_mse)))])
        ELSE None]

(* What calibrate() returns after pick_best_polynomial_fit came back. *)
CalibrateResult(fitted, saved) == TRUE

(* The fitting stage and the end of calibrate(). *)
CalibrateFit ==
    /\ cal.pc = "fit"   \* after the sweep
    /\ IF FitStage(cal.calibration_data) = "abort"
       THEN /\ cal' = [cal EXCEPT !.pc = "done",
                                  !.ret = Some(CalibrateResult(FALSE, FALSE))]
            /\ UNCHANGED << storage, run >>
       ELSE IF FitStage(cal.calibration_data) = "raise"
       THEN /\ cal' = [cal EXCEPT !.pc = "raised"]
            /\ UNCHANGED << storage, run >>
       ELSE \E mses \in [1 .. max_polynomial_degree -> 0 .. MaxMse],
               outcome \in SaveOutcomes :
            LET best == PickBest(mses)
                fitted == [cal EXCEPT
                    !.poly_model =
                        Some(FittedModel(best.degree, cal.calibration_data)),
                    !.poly_transform = Some(best.degree),
                    !.poly_degree = Some(best.degree),
                    !.poly_mse = Some(best.mse)]
            IN /\ storage' = StorageAfterSave(DataToSave(fitted), outcome)
               /\ cal' = [fitted EXCEPT !.pc = "done",
                     !.ret = Some(CalibrateResult(TRUE, outcome = "ok"))]
               /\ run' = [run EXCEPT !.fitted = TRUE, !.saveCalls = @ + 1,
                                     !.saveOk = (outcome = "ok"),
                                     !.mses = mses]
    /\ UNCHANGED << laser, robot, outsideCal >>

(* The caller takes calibrate()'s result (or its exception). *)
CalibrateReturn ==
    /\ cal.pc \in { "done", "raised" }
    /\ cal' = [cal EXCEPT !.pc = "idle", !.ret = None, !.i = 0,
                          !.max_attempts = 0]
    /\ run' = RunInit(storage)
    /\ UNCHANGED << laser, robot, storage, outsideCal >>

(***************************************************************************)
(* HeightMeasuringService                                                  *)
(***************************************************************************)
(* storage.load_calibration(filename) on file f *)
LoadedData(f) == IF f.file = "complete" THEN f.data ELSE None

(* except Exception: self.poly_model = None; self.poly_transform = None *)
LoadFailure(h) ==
    [h EXCEPT !.poly_model = None, !.poly_transform = None, !.loadFailed = TRUE]

(* load_calibration_curve(), statement by statement: a missing key raises  *)
(* where it is read, and the final print formats self.mse with :.4f, which *)
(* raises unless mse is a number.  Fields assigned before the exception    *)
(* keep their values.                                                      *)
LoadCalibrationCurve(f) ==
    LET data == LoadedData(f)
        h0 == HmsInit
    IN IF data = None THEN LoadFailure(h0)
       ELSE LET d == Val(data) IN
       IF d.polynomial = None THEN LoadFailure(h0)
       ELSE LET p == Val(d.polynomial) IN
       IF p.degree = None THEN LoadFailure(h0)
       ELSE LET h1 == [h0 EXCEPT !.poly_degree = p.degree] IN
       IF p.mse = None THEN LoadFailure(h1)
       ELSE LET h2 == [h1 EXCEPT !.mse = p.mse, !.poly_transform = p.degree] IN
       IF p.coefficients = None \/ p.intercept = None THEN LoadFailure(h2)
       ELSE LET h3 == [h2 EXCEPT
                    !.poly_model = Some([coef |-> Val(p.coefficients),
                                         intercept |-> Val(p.intercept)]),
                    !.zero_reference_coords = d.zero_reference_coords]
                pos == d.robot_initial_position
                h4 == IF pos # None
                      THEN [h3 EXCEPT
                              !.zero_reference_z = Some(Val(pos)[3]),
                              !.reference_xy = Some(<< Val(pos)[1], Val(pos)[2] >>)]
                      ELSE h3
            IN IF ~IsNum(Val(p.mse)) THEN LoadFailure(h4) ELSE h4

RECURSIVE Pow(_, _)
Pow(b, e) == IF e = 0 THEN 1 ELSE b * Pow(b, e - 1)

RECURSIVE Dot(_, _, _)
Dot(coef, x, k) ==
    IF k > Len(coef) THEN 0 ELSE coef[k] * Pow(x, k - 1) + Dot(coef, x, k + 1)

(* if self.poly_model is None or self.poly_transform is None: raise *)
ModelNotLoaded(h) == h.poly_model = None \/ h.poly_transform = None

(* pixel_to_mm: the feature expansion [1, d, d^2, ...] times coef_ plus    *)
(* intercept_; sklearn raises on a non-integer degree and on a coefficient *)
(* vector whose length is not degree + 1.                                  *)
PixelToMm(h, pixel_delta) ==
    IF ModelNotLoaded(h) THEN [raised |-> TRUE, value |-> 0]
    ELSE LET degree == Val(h.poly_transform)
             m == Val(h.poly_model)
         IN IF \/ ~IsNum(degree)
               \/ ~IsNum(m.intercept)
               \/ m.coef[1] # "list"
            THEN [raised |-> TRUE, value |-> 0]
            ELSE IF Len(m.coef[2]) # degree[2] + 1
            THEN [raised |-> TRUE, value |-> 0]
            ELSE [raised |-> FALSE,
                  value |-> Dot(m.coef[2], pixel_delta, 1) + m.intercept[2]]

(* move_to(x, y, wait=True) up to the positioner command: the target pose, *)
(* or an exception before anything is commanded.                           *)
MoveTarget(h, x, y, posKnown) ==
    IF h.zero_reference_z = None THEN [raised |-> TRUE, target |-> None]
    ELSE IF (x = None \/ y = None) /\ h.reference_xy = None
    THEN [raised |-> TRUE, target |-> None]
    ELSE IF ~posKnown THEN [raised |-> TRUE, target |-> None]
    ELSE LET xy == IF x = None \/ y = None
                   THEN Val(h.reference_xy) ELSE << Val(x), Val(y) >>
         IN [raised |-> FALSE,
             target |-> Some(<< xy[1], xy[2], Val(h.zero_reference_z), 180, 0, 0 >>)]

MeasureResult_ZeroHeight(h, closest) ==
    IF closest = None
    THEN [raised |-> FALSE, ret |-> Some(<< 0, 0 >>), pixelToMmCalls |-> 0]
    ELSE [raised |-> FALSE, ret |-> Some(<< 0, 0 >>), pixelToMmCalls |-> 1]

(* measure_at after detect() returned closest: None for no reading, else   *)
(* (height_mm, pixel_delta) through pixel_to_mm, or an exception.          *)
MeasureResult(h, closest) ==
    IF closest = None
    THEN [raised |-> FALSE, ret |-> None, pixelToMmCalls |-> 0]
    ELSE IF h.zero_reference_coords = None
    THEN [raised |-> TRUE, ret |-> None, pixelToMmCalls |-> 0]
    ELSE LET pixel_delta == PixelDelta(Val(h.zero_reference_coords), Val(closest))
             mm == PixelToMm(h, pixel_delta)
         IN [raised |-> mm.raised,
             ret |-> IF mm.raised THEN None ELSE Some(<< mm.value, pixel_delta >>),
             pixelToMmCalls |-> 1]

XYArgs == { None } \cup { Some(v) : v \in XCoords }
Deltas == { a - b : a, b \in XCoords }

(* Construction: __init__ and load_calibration_curve() on the file named   *)
(* by calibration_filename.                                                *)
HmsConstruct ==
    /\ hms.pc = "unbuilt"
    /\ hms' = [LoadCalibrationCurve(storage) EXCEPT !.pc = "idle"]
    /\ UNCHANGED << laser, robot, storage, det, obs, cal, run, call, detector, svc, cam, det2 >>

HmsPixelToMm ==
    /\ hms.pc = "idle"
    /\ \E pixel_delta \in Deltas :
          LET mm == PixelToMm(hms, pixel_delta)
          IN hms' = [hms EXCEPT !.pc = IF mm.raised THEN "raised" ELSE "done",
                                !.op = "pixel_to_mm",
                                !.ret = IF mm.raised THEN None ELSE Some(mm.value)]
    /\ call' = [CallInit EXCEPT !.pixelToMmCalls = 1]
    /\ UNCHANGED << laser, robot, storage, det, obs, cal, run, detector, svc, cam, det2 >>

HmsMoveTo ==
    /\ hms.pc = "idle"
    /\ \E x \in XYArgs, y \in XYArgs, posKnown \in BOOLEAN :
          LET mv == MoveTarget(hms, x, y, posKnown)
          IN /\ hms' = [hms EXCEPT !.pc = IF mv.raised THEN "raised" ELSE "done",
                                   !.op = "move_to", !.ret = None]
             /\ IF mv.raised
                THEN UNCHANGED robot /\ call' = CallInit
                ELSE \E outcome \in WaitOutcomes :
                     /\ MoveAndWait(Val(mv.target), outcome)
                     /\ call' = [CallInit EXCEPT !.moveCmds = 1,
                                                 !.wait = outcome,
                                                 !.x = x, !.y = y,
                                                 !.target = mv.target]
    /\ UNCHANGED << laser, storage, det, obs, cal, run, detector, svc, cam, det2 >>

HmsMeasureAt ==
    /\ hms.pc = "idle"
    /\ \E x \in XYArgs, y \in XYArgs, posKnown \in BOOLEAN :
          LET mv == MoveTarget(hms, x, y, posKnown)
          IN IF mv.raised
             THEN /\ hms' = [hms EXCEPT !.pc = "raised", !.op = "measure_at",
                                        !.ret = None]
                  /\ call' = CallInit
                  /\ UNCHANGED << laser, robot >>
             ELSE \E d \in DetectCall, outcome \in WaitOutcomes :
                  LET res == MeasureResult(hms, d.ret.closest)
                  IN /\ MoveAndWait(Val(mv.target), outcome)
                     /\ laser' = d.laser
                     /\ hms' = [hms EXCEPT
                          !.pc = IF res.raised THEN "raised" ELSE "done",
                          !.op = "measure_at", !.ret = res.ret]
                     /\ call' = [moveCmds |-> 1, detectCalls |-> 1,
                                 pixelToMmCalls |-> res.pixelToMmCalls,
                                 closest |-> d.ret.closest,
                                 wait |-> outcome, x |-> x, y |-> y,
                                 target |-> mv.target]
    /\ UNCHANGED << storage, det, obs, cal, run, detector, svc, cam, det2 >>

(* The caller takes the result (or the exception) of the call. *)
HmsReturn ==
    /\ hms.pc \in { "done", "raised" }
    /\ hms' = [hms EXCEPT !.pc = "idle", !.op = "none", !.ret = None]
    /\ call' = CallInit
    /\ UNCHANGED << laser, robot, storage, det, obs, cal, run, detector, svc, cam, det2 >>

(* The acquisition protocol on its own, step by step. *)
NextDetect ==
    \/ DetectCallTop
    \/ DetectAttempt
    \/ DetectCaptureOff
    \/ DetectOffDone
    \/ DetectCaptureOn
    \/ DetectOnDone
    \/ DetectReturnTop

SpecDetect == Init /\ [][NextDetect]_vars

(* The calibration engine; it calls detect() as one step.  No branch of    *)
(* calibrate() reads the pose reached or the wait's result, so the engine  *)
(* is first run with a positioner that reaches every commanded pose.       *)
Next ==
    \/ CalibrateCall
    \/ CalibrateZero
    \/ CalibrateStep
    \/ CalibrateAttempt
    \/ CalibrateFit
    \/ CalibrateReturn

Spec == Init /\ [][Next]_vars

(* The calibration engine with a positioner whose waits can time out. *)
NextMoves ==
    \/ Next
    \/ CalibrateCallTimeout
    \/ CalibrateStepTimeout

SpecMoves == Init /\ [][NextMoves]_vars

(* The height inference service; it calls detect() as one step. *)
NextHms ==
    \/ HmsConstruct
    \/ HmsPixelToMm
    \/ HmsMoveTo
    \/ HmsMeasureAt
    \/ HmsReturn

SpecHms == InitHms /\ [][NextHms]_vars

(* The single thread keeps running: every enabled step is eventually taken. *)
FairSpecDetect == SpecDetect /\ WF_vars(NextDetect)
FairSpec == Spec /\ WF_vars(Next)

(***************************************************************************)
(* Properties                                                              *)
(***************************************************************************)
(* Attempts of the detect() call in progress that have started. *)
AttemptsStarted ==
    IF det.pc \in { "capOff", "capOn" } \/ (det.pc = "ret" /\ det.ret.closest # None)
    THEN det.attempt + 1
    ELSE det.attempt

(* C1: detect() terminates after at most max_detection_retries attempts,   *)
(* each attempt (abandoned ones included) starting with one laser-OFF      *)
(* command; when no attempt yielded a closest point it returns             *)
(* (None, None, None) after exactly max_detection_retries attempts, and    *)
(* once it has returned no laser command or capture follows.               *)
C1_DetectBoundedAttempts ==
    /\ [](/\ obs.offCmds = AttemptsStarted
          /\ obs.offCmds <= max_detection_retries
          /\ (det.pc = "ret" /\ obs.detectorHits = 0
                => det.ret = NoneResult /\ obs.offCmds = max_detection_retries))
    /\ [][det.pc = "ret" => laser' = laser /\ det'.pc = "idle"]_vars
    /\ ((det.pc = "attempt" /\ det.attempt = 0) ~> (det.pc = "ret"))

C1_Witness ==
    /\ det.pc = "ret"
    /\ det.ret = NoneResult
    /\ obs.offCmds = max_detection_retries
    /\ obs.detectorCalls < max_detection_retries

(* C2: detect() returns the (mask, bright, closest) of the first attempt   *)
(* whose closest point is present, and as soon as the peak detector has    *)
(* produced that point detect() is at its return: no later attempt, laser  *)
(* command, capture or detector call.                                      *)
C2_ReturnsFirstHit ==
    /\ obs.detectorHits <= 1
    /\ obs.detectorHits = 1
         => /\ det.pc = "ret"
            /\ det.ret = obs.firstHit
            /\ det.ret.closest # None
            /\ obs.detectorCalls <= det.attempt + 1
    /\ (det.pc = "ret" /\ det.ret.closest # None) => obs.detectorHits = 1

C2_Witness ==
    /\ det.pc = "ret"
    /\ det.ret.closest # None
    /\ det.attempt >= 1

(* C3: within an attempt the laser-ON command comes only after             *)
(* detection_samples OFF frames were captured and the OFF median computed  *)
(* in that attempt; OFF-phase captures happen with the laser commanded     *)
(* OFF, and the ON phase is never entered after a short OFF phase.         *)
C3_OffBeforeOn ==
    /\ det.pc = "capOff" => laser = "off" /\ ~det.off_med
    /\ det.pc = "capOn"
         => /\ laser = "on"
            /\ det.off_frames = detection_samples
            /\ det.off_med
    /\ obs.onCmds <= obs.offCmds
    /\ obs.onCmds > 0 /\ det.pc = "capOff" => det.attempt > 0

C3_Witness ==
    /\ det.pc = "capOn"
    /\ det.attempt >= 1
    /\ det.on_frames >= 1

(* C4: a measure_at() call invokes detect() at most once and, when it      *)
(* returns, has invoked it exactly once (a call that raises in move_to     *)
(* never reaches detect); when detect() yielded no closest point           *)
(* measure_at returns None, not a number, and pixel_to_mm is not invoked.  *)
C4_MeasureOnceNoReading ==
    hms.op = "measure_at"
      => /\ call.detectCalls <= 1
         /\ hms.pc = "done" => call.detectCalls = 1
         /\ (call.detectCalls = 1 /\ call.closest = None)
              => /\ hms.pc = "done"
                 /\ hms.ret = None
                 /\ call.pixelToMmCalls = 0
         /\ (hms.pc = "done" /\ hms.ret # None) => call.closest # None

C4_Witness ==
    /\ hms.op = "measure_at"
    /\ hms.pc = "done"
    /\ call.detectCalls = 1
    /\ call.closest = None
    /\ ~hms.loadFailed

(* C5: after a failed load at construction every pixel_to_mm, move_to and  *)
(* measure_at call raises before any positioner command and before the     *)
(* laser is toggled (detect() is not reached).                             *)
C5_FailedLoadRefusesCalls ==
    (hms.loadFailed /\ hms.pc \in { "done", "raised" })
      => /\ hms.pc = "raised"
         /\ call.moveCmds = 0
         /\ call.detectCalls = 0

(* C6: when the zero-reference detection fails, calibrate() returns False, *)
(* commands no downward step, records no sample, fits no model and writes  *)
(* nothing to storage.                                                     *)
C6_ZeroFailureAborts ==
    run.zero = "failed"
      => /\ cal.pc = "done"
         /\ cal.ret = Some(FALSE)
         /\ run.downCmds = 0
         /\ run.appended = 0
         /\ ~run.fitted
         /\ run.saveCalls = 0
         /\ storage = run.storageAtStart

C6_Witness ==
    /\ run.zero = "failed"
    /\ cal.pc = "done"
    /\ storage = GoodFile

(* C7: within one calibration step detect() is invoked at most             *)
(* calibration_max_attempts times, whatever the attempts' outcomes.        *)
C7_AttemptsPerStepBounded ==
    run.stepCalls <= calibration_max_attempts

(* C8: calibrate() eventually returns for every sequence of detection      *)
(* outcomes: a step without an accepted attempt is skipped.                *)
C8_CalibrateReturns ==
    (cal.pc = "loop") ~> (cal.pc \in { "done", "raised" })

(* C9: when a run ends its sweep with fewer than 3 samples in              *)
(* calibration_data, save_calibration is not called and the file in        *)
(* storage is the one from before the run.                                 *)
C9_TooFewSamplesNoWrite ==
    (cal.pc \in { "done", "raised" } /\ Len(cal.calibration_data) < 3)
      => /\ run.saveCalls = 0
         /\ ~run.fitted
         /\ storage = run.storageAtStart

C9_Witness ==
    /\ cal.pc = "done"
    /\ run.zero = "ok"
    /\ Len(cal.calibration_data) = 2
    /\ storage = GoodFile

(* C10: calibrate() returns True only if in that call a model was fitted   *)
(* and the storage save succeeded.                                         *)
C10_TrueOnlyIfPersisted ==
    (cal.pc = "done" /\ cal.ret = Some(TRUE))
      => run.fitted /\ run.saveOk

(* C11: when the wait after a positioner move (the initial move or a step  *)
(* move of calibrate()) ended by timeout, the operation is at its exit     *)
(* reporting a failure and has taken no detection reading at that pose:    *)
(* it never goes on to the zero-reference detect(), to the step's          *)
(* detect() loop, or to a result of True.                                  *)
C11_TimeoutReported ==
    run.wait = "timeout"
      => /\ cal.pc \in { "done", "raised" }
         /\ cal.ret # Some(TRUE)
         /\ run.stepCalls = 0

(* Readings the loop body can be handed while the engine is at the top of  *)
(* the attempt loop with the zero reference known.                         *)
AtLoopTop ==
    /\ cal.pc = "loop"
    /\ cal.max_attempts > 0
    /\ cal.zero_reference_coords # None

(* C12: no sample with a positive pixel-delta is ever in the sample list,  *)
(* and at every attempt of calibrate() a reading with a positive delta is  *)
(* discarded (sample list and previous reading untouched, the loop goes    *)
(* on) and consumes one attempt of the step.                               *)
C12_NoPositiveDeltaSample ==
    /\ \A k \in 1 .. Len(cal.calibration_data) : cal.calibration_data[k][2] <= 0
    /\ AtLoopTop
         => \A p \in Points :
              PixelDelta(Val(cal.zero_reference_coords), p) > 0
                => LET out == AttemptOutcome(cal, Some(p))
                   IN /\ out.verdict = "wrong_sign"
                      /\ out.cal.calibration_data = cal.calibration_data
                      /\ out.cal.prev_reading = cal.prev_reading
                      /\ out.cal.max_attempts = cal.max_attempts - 1
                      /\ out.cal.pc = "loop"

(* A step whose only detect() so far gave a positive delta: one attempt    *)
(* is gone, nothing was recorded in the step.                              *)
C12_Witness ==
    /\ cal.pc = "loop"
    /\ run.stepCalls = 1
    /\ cal.prev_reading = None
    /\ cal.max_attempts = calibration_max_attempts - 1
    /\ cal.calibration_data = << << 0, 0 >> >>
    /\ \E p \in Points : PixelDelta(Val(cal.zero_reference_coords), p) > 0

(* A sample recorded by a step of the sweep (the zero sample has height 0). *)
IsStepSample(e) == e[1] > 0

(* C13: the pixel-deltas of the recorded step samples are non-increasing   *)
(* in recording order, and the reference of the comparison (prev_reading)  *)
(* is the delta of the last recorded step sample, never a rejected         *)
(* reading.                                                                *)
C13_MonotonicSamples ==
    LET steps == SelectSeq(cal.calibration_data, IsStepSample)
    IN /\ \A k \in 2 .. Len(steps) : steps[k][2] <= steps[k - 1][2]
       /\ (cal.prev_reading # None /\ Len(steps) > 0)
            => Val(cal.prev_reading) = steps[Len(steps)][2]

(* C14: during every calibrate() call the sample list holds exactly the    *)
(* samples recorded in that call (the zero sample and its step samples),   *)
(* and prev_reading is unset until the call has recorded a step sample; so *)
(* what a run fits and persists is only its own samples.                   *)
C14_FreshSamplesPerRun ==
    cal.pc # "idle"
      => /\ Len(cal.calibration_data) = run.appended
         /\ run.appended <= 1 => cal.prev_reading = None
         /\ run.saveOk
              => Len(Val(storage.data).calibration_data) = run.appended

(* C15: a run that reaches the fitting stage with 3 or more samples        *)
(* (3 and 4 included) completes the cross-validated fit, has a degree      *)
(* selected and hands the model to save_calibration; only fewer than 3     *)
(* samples end the stage without a model.                                  *)
C15_FitCompletesFromThree ==
    (cal.pc \in { "done", "raised" } /\ run.zero = "ok")
      => IF Len(cal.calibration_data) >= 3
         THEN /\ cal.pc = "done"
              /\ run.fitted
              /\ cal.poly_degree # None
              /\ run.saveCalls = 1
         ELSE ~run.fitted /\ run.saveCalls = 0

(* C16: with mses[k] the cross-validated MSE of degree k, the degree       *)
(* selected is one of 1 .. max_polynomial_degree with the lowest MSE and   *)
(* the smallest such degree; the stored mse is that degree's MSE, the      *)
(* stored expansion is of that degree, and the stored model was fitted on  *)
(* the full sample set with degree + 1 coefficients.                       *)
C16_LowestMseSmallestDegree ==
    run.fitted
      => LET degree == Val(cal.poly_degree)
         IN /\ degree \in 1 .. max_polynomial_degree
            /\ \A k \in 1 .. max_polynomial_degree : run.mses[degree] <= run.mses[k]
            /\ \A k \in 1 .. degree - 1 : run.mses[k] > run.mses[degree]
            /\ cal.poly_mse = Some(run.mses[degree])
            /\ cal.poly_transform = Some(degree)
            /\ Val(cal.poly_model).fit_on = cal.calibration_data
            /\ Len(Val(cal.poly_model).coef) = degree + 1

(* A fit in which the lowest MSE is shared by degree 1 and a higher one. *)
C16_Witness ==
    /\ run.fitted
    /\ cal.pc = "done"
    /\ \E k \in 2 .. max_polynomial_degree : run.mses[k] = run.mses[1]
    /\ cal.poly_degree = Some(1)

(* C17: the file a calibrate() call has written holds the zero-reference   *)
(* coordinate detected in the call, the initial pose of the call, and a    *)
(* polynomial section with degree, coefficients, intercept and mse, where  *)
(* degree and mse are the selected ones and the coefficient vector has     *)
(* degree + 1 entries.                                                     *)
C17_ArtifactContent ==
    run.saveOk
      => /\ storage.file = "complete"
         /\ storage.data # None
         /\ LET d == Val(storage.data)
            IN /\ run.zero = "ok"
               /\ d.zero_reference_coords # None
               /\ d.zero_reference_coords = cal.zero_reference_coords
               /\ d.robot_initial_position # None
               /\ d.robot_initial_position = cal.robot_initial_position
               /\ d.polynomial # None
               /\ LET p == Val(d.polynomial)
                  IN /\ p.degree = Some(Num(Val(cal.poly_degree)))
                     /\ p.mse = Some(Num(Val(cal.poly_mse)))
                     /\ p.intercept # None /\ IsNum(Val(p.intercept))
                     /\ p.coefficients # None
                     /\ Val(p.coefficients)[1] = "list"
                     /\ Len(Val(p.coefficients)[2]) = Val(p.degree)[2] + 1

(* A written file whose model has a degree above 1. *)
C17_Witness ==
    /\ run.saveOk
    /\ cal.pc = "done"
    /\ cal.poly_degree # None
    /\ Val(cal.poly_degree) > 1
    /\ storage # run.storageAtStart

(* The polynomial section of file f has a degree and a coefficient list    *)
(* whose length is not degree + 1.                                         *)
CoefLengthMismatch(f) ==
    /\ LoadedData(f) # None
    /\ Val(LoadedData(f)).polynomial # None
    /\ LET p == Val(Val(LoadedData(f)).polynomial)
       IN /\ p.degree # None /\ IsNum(Val(p.degree))
          /\ p.coefficients # None /\ Val(p.coefficients)[1] = "list"
          /\ Len(Val(p.coefficients)[2]) # Val(p.degree)[2] + 1

(* C18: once constructed on a file whose coefficient vector does not have  *)
(* length degree + 1, the service has recorded a load failure and holds no *)
(* model, and its pixel_to_mm and measure_at calls raise without a         *)
(* positioner command or a detect() call.                                  *)
C18_CoefLengthChecked ==
    (hms.pc # "unbuilt" /\ CoefLengthMismatch(storage))
      => /\ hms.loadFailed
         /\ ModelNotLoaded(hms)
         /\ (hms.op \in { "pixel_to_mm", "measure_at" }
               /\ hms.pc \in { "done", "raised" })
              => /\ hms.pc = "raised"
                 /\ call.moveCmds = 0
                 /\ call.detectCalls = 0

(* C19: once save_calibration has been called on top of a persisted        *)
(* artifact, whether it completed or was interrupted, load_calibration     *)
(* finds a complete artifact: the old one or the new one.                  *)
C19_AtomicOverwrite ==
    (run.saveCalls > 0 /\ run.storageAtStart.file = "complete")
      => /\ LoadedData(storage) # None
         /\ \/ LoadedData(storage) = LoadedData(run.storageAtStart)
            \/ LoadedData(storage) = Some(DataToSave(cal))

(* C20: a measure_at() call that returns a measurement has called          *)
(* pixel_to_mm exactly once, on pixel_delta = zero_reference_x -           *)
(* detected_x, and returns (the value pixel_to_mm gives for that delta,    *)
(* pixel_delta).                                                           *)
C20_MeasureDelta ==
    (hms.op = "measure_at" /\ hms.pc = "done" /\ hms.ret # None)
      => /\ call.closest # None
         /\ hms.zero_reference_coords # None
         /\ call.pixelToMmCalls = 1
         /\ LET pixel_delta == Val(hms.zero_reference_coords)[1]
                                  - Val(call.closest)[1]
            IN /\ ~PixelToMm(hms, pixel_delta).raised
               /\ Val(hms.ret) = << PixelToMm(hms, pixel_delta).value,
                                     pixel_delta >>

(* A measurement with a positive pixel delta: the line was detected left   *)
(* of the zero reference.                                                  *)
C20_Witness ==
    /\ hms.op = "measure_at"
    /\ hms.pc = "done"
    /\ hms.ret # None
    /\ Val(hms.ret)[2] > 0
    /\ Val(hms.ret)[1] # 0

(* C21: the pose a move_to(x, y) (direct or from measure_at) commands has  *)
(* z and the three orientation angles of the calibration pose stored in    *)
(* the file, and the requested x and y when both are given.                *)
C21_MoveToPose ==
    call.moveCmds = 1
      => LET pose == Val(Val(LoadedData(storage)).robot_initial_position)
             target == Val(call.target)
         IN /\ target[3] = pose[3]
            /\ target[4] = pose[4]
            /\ target[5] = pose[5]
            /\ target[6] = pose[6]
            /\ (call.x # None /\ call.y # None)
                 => target[1] = Val(call.x) /\ target[2] = Val(call.y)

(* detect() is in a capture phase. *)
InPhase == det.pc \in { "capOff", "capOn" }

(* Frames obtained so far in the phase detect() is in. *)
PhaseFrames == IF det.pc = "capOff" THEN det.off_frames ELSE det.on_frames

(* C22: a capture phase of detect() ends only after detection_samples      *)
(* polls of the frame source; a phase that ends with fewer than            *)
(* detection_samples frames abandons the attempt with no laser command and *)
(* no peak-detector call, and the next attempt, if one remains, starts     *)
(* with the laser-OFF command and an empty OFF phase.                      *)
C22_PollsAndAbandon ==
    /\ [](InPhase => det.i <= detection_samples /\ PhaseFrames <= det.i)
    /\ [][(InPhase /\ det'.pc # det.pc) => det.i = detection_samples]_vars
    /\ [][(InPhase /\ det.i = detection_samples
                   /\ PhaseFrames < detection_samples)
            => /\ det'.pc = "attempt"
               /\ det'.attempt = det.attempt + 1
               /\ obs' = obs
               /\ laser' = laser]_vars
    /\ [][(det.pc = "attempt" /\ det.attempt >= 1
                              /\ det.attempt < max_detection_retries)
            => /\ laser' = "off"
               /\ det'.pc = "capOff"
               /\ det'.i = 0
               /\ det'.off_frames = 0]_vars

(* The attempt after one that was abandoned in its ON phase: back in the   *)
(* OFF phase, the peak detector never called.                              *)
C22_Witness ==
    /\ det.pc = "capOff"
    /\ det.attempt >= 1
    /\ obs.onCmds >= 1
    /\ obs.detectorCalls = 0
    /\ laser = "off"

(***************************************************************************)
(* LaserDetector (laser_detector.py).  Sub-pixel positions are exact       *)
(* rationals << numerator, denominator >> in lowest terms with a positive  *)
(* denominator, so that "returns exactly idx" is an equality of values.    *)
(***************************************************************************)
RECURSIVE Gcd(_, _)
Gcd(a, b) == IF b = 0 THEN a ELSE Gcd(b, a % b)

Abs(a) == IF a < 0 THEN -a ELSE a

Rat(n, d) ==
    LET g == Gcd(Abs(n), Abs(d))
        s == IF d < 0 THEN -1 ELSE 1
    IN << (s * n) \div g, (s * d) \div g >>

RatOfInt(k) == << k, 1 >>

RatAdd(p, q) == Rat(p[1] * q[2] + q[1] * p[2], p[2] * q[2])

(* Python's arr[k]: arrays are indexed from 0. *)
At(arr, k) == arr[k + 1]

(* offset = 0.5 * (L - R) / denom *)
Offset_NoHalf(L, R, denom) == Rat(L - R, denom)

Offset(L, R, denom) == Rat(L - R, 2 * denom)

subpixel_quadratic(idx, arr) ==
    LET n == Len(arr)
    IN IF 1 <= idx /\ idx < n - 1
       THEN LET L == At(arr, idx - 1)
                C == At(arr, idx)
                R == At(arr, idx + 1)
                denom == L - 2 * C + R
            IN IF denom # 0
               THEN RatAdd(RatOfInt(idx), Offset(L, R, denom))
               ELSE RatOfInt(idx)
       ELSE RatOfInt(idx)

(* Input arrays of a direct subpixel_quadratic call. *)
MaxArrLen == 4
MaxVal == 3
Arrays == UNION { [1 .. n -> 0 .. MaxVal] : n \in 1 .. MaxArrLen }

(***************************************************************************)
(* Frames.  detect_laser_line reads the red channel only, so a frame is    *)
(* its red channel: FrameH rows of FrameW intensities.  A row is dark or   *)
(* carries a laser spot of one or two pixels; ambient light is uniform.    *)
(***************************************************************************)
FrameH == 2
FrameW == 4
SpotLevels == { 8, 24 }
AmbientLevel == 8

SpotRow(c, v, wd) ==
    [j \in 1 .. FrameW |-> IF c <= j - 1 /\ j - 1 < c + wd THEN v ELSE 0]

DarkRow == [j \in 1 .. FrameW |-> 0]

Rows ==
    {DarkRow} \cup { SpotRow(c, v, wd) :
                       c \in 0 .. FrameW - 1, v \in SpotLevels, wd \in 1 .. 2 }

Frames == [1 .. FrameH -> Rows]

DarkFrame == [i \in 1 .. FrameH |-> DarkRow]

AmbientFrame == [i \in 1 .. FrameH |-> [j \in 1 .. FrameW |-> AmbientLevel]]

(* diff = on_r - off_r; diff[diff < 0] = 0 *)
ClippedDiff(on_frame, off_frame) ==
    [i \in 1 .. FrameH |->
        [j \in 1 .. FrameW |->
            LET v == on_frame[i][j] - off_frame[i][j]
            IN IF v < 0 THEN 0 ELSE v]]

(* cv2.GaussianBlur with gaussian_blur_kernel = (3, 1) and sigma 0: the    *)
(* kernel is [1, 2, 1] / 4 along each row, the border is reflected         *)
(* (r[-1] = r[1], r[w] = r[w - 2]).  Values are kept in quarter units, so  *)
(* BlurScale times the true value; a threshold is scaled likewise.         *)
BlurScale == 4

Reflect(j) == IF j < 1 THEN 2 - j ELSE IF j > FrameW THEN 2 * FrameW - j ELSE j

GaussianBlur(diff) ==
    [i \in 1 .. FrameH |->
        [j \in 1 .. FrameW |->
            diff[i][Reflect(j - 1)] + 2 * diff[i][j] + diff[i][Reflect(j + 1)]]]

Exceeds(v) == v > BlurScale * min_intensity

(* np.max and np.argmax (first index of the maximum, from 0). *)
SeqMax(a) == CHOOSE m \in { a[k] : k \in 1 .. Len(a) } :
                 \A k \in 1 .. Len(a) : a[k] <= m

ArgMax(a) == (CHOOSE k \in 1 .. Len(a) :
                 /\ a[k] = SeqMax(a)
                 /\ \A l \in 1 .. k - 1 : a[l] < a[k]) - 1

Column(diff, j) == [i \in 1 .. FrameH |-> diff[i][j]]

(* The scan-lines of an axis: rows for 'y', columns for anything else. *)
ScanLines(diff, axis) ==
    IF axis = "y" THEN [i \in 1 .. FrameH |-> diff[i]]
    ELSE [j \in 1 .. FrameW |-> Column(diff, j)]

(* points: one (x, y) per scan-line whose maximum exceeds min_intensity,   *)
(* in scan order; the refined coordinate is the peak along the line.       *)
LinePoint(line, k, axis) ==
    LET peak == subpixel_quadratic(ArgMax(line), line)
    IN IF axis = "y" THEN << peak, RatOfInt(k) >> ELSE << RatOfInt(k), peak >>

RECURSIVE PointsFrom(_, _, _)
PointsFrom(lines, k, axis) ==
    IF k > Len(lines) THEN << >>
    ELSE (IF Exceeds(SeqMax(lines[k]))
          THEN << LinePoint(lines[k], k - 1, axis) >>
          ELSE << >>) \o PointsFrom(lines, k + 1, axis)

(* (p[0] - w/2)^2 + (p[1] - h/2)^2 as a fraction << numerator, denom >>. *)
CentreDist(p) ==
    LET a == p[1][1]
        b == p[1][2]
        c == p[2][1]
        e == p[2][2]
        dx == 2 * a - FrameW * b
        dy == 2 * c - FrameH * e
    IN << dx * dx * e * e + dy * dy * b * b, 4 * b * b * e * e >>

FracLess(f, g) == f[1] * g[2] < g[1] * f[2]

(* min(points, key = distance to centre): the first of the nearest. *)
Closest(points) ==
    IF points = << >> THEN None
    ELSE LET k == CHOOSE k \in 1 .. Len(points) :
                    /\ \A l \in 1 .. Len(points) :
                          ~FracLess(CentreDist(points[l]), CentreDist(points[k]))
                    /\ \A l \in 1 .. k - 1 :
                          FracLess(CentreDist(points[k]), CentreDist(points[l]))
         IN Some(points[k])

(* cv2.minMaxLoc(diff)[3]: (x, y) of the first maximum in row-major order. *)
MaxLoc(diff) ==
    LET flat == [k \in 1 .. FrameH * FrameW |->
                    diff[((k - 1) \div FrameW) + 1][((k - 1) % FrameW) + 1]]
        k == ArgMax(flat)
    IN << k % FrameW, k \div FrameW >>

(* int(round(q)): Python rounds halves to the even neighbour. *)
Round(q) ==
    LET f == q[1] \div q[2]
        r == q[1] % q[2]
    IN IF 2 * r < q[2] THEN f
       ELSE IF 2 * r > q[2] THEN f + 1
       ELSE IF f % 2 = 0 THEN f ELSE f + 1

(* mask: the set of (row, column) pixels set to 255. *)
Mask(points) ==
    { << Round(points[k][2]), Round(points[k][1]) >> : k \in 1 .. Len(points) }

detect_laser_line(on_frame, off_frame, axis) ==
    IF on_frame = None \/ off_frame = None THEN NoneResult
    ELSE LET diff == GaussianBlur(ClippedDiff(on_frame, off_frame))
             points == PointsFrom(ScanLines(diff, axis), 1, axis)
         IN [mask |-> Some(Mask(points)),
             bright |-> Some(MaxLoc(diff)),
             closest |-> Closest(points)]

Axes == { "x", "y" }

(* A direct call of detect_laser_line on two frames, on a fresh detector. *)
DetectLaserLine ==
    /\ detector.op = "none"
    /\ \E on_frame \in Frames \cup {None}, axis \in Axes :
       \E off_frame \in { None, DarkFrame, AmbientFrame, on_frame } :
        LET ret == detect_laser_line(on_frame, off_frame, axis)
        IN /\ detector' =
                [last_closest_point |->
                    IF on_frame = None \/ off_frame = None
                    THEN detector.last_closest_point ELSE ret.closest,
                 lase_bright_point |->
                    IF on_frame = None \/ off_frame = None
                    THEN detector.lase_bright_point ELSE ret.bright,
                 op |-> "detect_laser_line",
                 args |-> << on_frame, off_frame, axis >>,
                 ret |-> ret]
           /\ UNCHANGED << laser, robot, storage, det, obs, cal, run, hms, call, svc, cam, det2 >>

(* A direct call of subpixel_quadratic on an array and one of its indices. *)
SubpixelQuadratic ==
    /\ detector.op = "none"
    /\ \E arr \in Arrays :
       \E idx \in 0 .. Len(arr) - 1 :
        /\ detector' = [detector EXCEPT !.op = "subpixel_quadratic",
                                        !.args = << idx, arr >>,
                                        !.ret = subpixel_quadratic(idx, arr)]
        /\ UNCHANGED << laser, robot, storage, det, obs, cal, run, hms, call, svc, cam, det2 >>

NextDetector == DetectLaserLine \/ SubpixelQuadratic

(* The detector is exercised on its own, with no calibration file around. *)
InitDetector == Init /\ storage = NoFile

SpecDetector == InitDetector /\ [][NextDetector]_vars

(* No scan-line of the blurred difference exceeds min_intensity. *)
NoLineExceeds(on_frame, off_frame, axis) ==
    LET lines == ScanLines(GaussianBlur(ClippedDiff(on_frame, off_frame)), axis)
    IN \A k \in 1 .. Len(lines) : ~Exceeds(SeqMax(lines[k]))

(* C23: detect_laser_line returns (None, None, None) - mask and bright     *)
(* point absent as well as the closest point - whenever no scan-line's     *)
(* maximum exceeds min_intensity, in particular for two identical images.  *)
C23_NoPeakAllNone ==
    (/\ detector.op = "detect_laser_line"
     /\ detector.args[1] # None
     /\ detector.args[2] # None
     /\ NoLineExceeds(detector.args[1], detector.args[2], detector.args[3]))
        => detector.ret = NoneResult

(* C24: subpixel_quadratic(idx, arr) returns exactly idx when idx is a     *)
(* boundary index (0 or len-1) or when L - 2C + R = 0, and exactly idx     *)
(* when the two neighbours are equal (L = R) with a non-zero denominator;  *)
(* in every other case it returns idx + (L - R) / (2 (L - 2C + R)).        *)
C24_SubpixelQuadratic ==
    detector.op = "subpixel_quadratic"
      => LET idx == detector.args[1]
             arr == detector.args[2]
             ret == detector.ret
         IN IF idx = 0 \/ idx = Len(arr) - 1
            THEN ret = << idx, 1 >>
            ELSE LET L == At(arr, idx - 1)
                     C == At(arr, idx)
                     R == At(arr, idx + 1)
                     D == L - 2 * C + R
                 IN IF D = 0 \/ L = R
                    THEN ret = << idx, 1 >>
                    ELSE /\ ret[2] > 0
                         /\ ret[1] * 2 * D = (idx * 2 * D + (L - R)) * ret[2]
                         /\ Gcd(Abs(ret[1]), ret[2]) = 1

(* An interior index with unequal neighbours: the refined peak is off idx. *)
C24_Witness ==
    /\ detector.op = "subpixel_quadratic"
    /\ detector.args[1] >= 1
    /\ detector.args[1] < Len(detector.args[2]) - 1
    /\ detector.ret # << detector.args[1], 1 >>

(***************************************************************************)
(* Configuration bundles (config.py).  LaserDetectionConfig is a plain     *)
(* dataclass: its constructor stores whatever it is given, and validate()  *)
(* is a method a caller may run afterwards.                                *)
(***************************************************************************)
validate(c) ==
    IF c.min_intensity < 0 THEN "ValueError"
    ELSE IF c.detection_delay_ms < 0 THEN "ValueError"
    ELSE IF c.detection_samples < 1 THEN "ValueError"
    ELSE IF c.max_detection_retries < 1 THEN "ValueError"
    ELSE IF c.default_axis \notin { "x", "y" } THEN "ValueError"
    ELSE "ok"

(* Bundles a client can construct. *)
Configs ==
    [min_intensity : { -1, min_intensity },
     default_axis : { "x", "y", "z" },
     detection_delay_ms : { -1, 200 },
     image_capture_delay_ms : { -1, 10 },
     detection_samples : 0 .. detection_samples,
     max_detection_retries : 0 .. max_detection_retries]

(* LaserDetectionService(detector, laser, vision_service, config) on any   *)
(* constructed bundle.                                                     *)
InitConfig ==
    /\ laser = "none"
    /\ robot \in InitialPoses
    /\ storage = NoFile
    /\ det = DetIdle
    /\ obs = ObsInit
    /\ cal = CalInit
    /\ run = RunInit(storage)
    /\ hms = HmsInit
    /\ call = CallInit
    /\ detector = DetectorInit
    /\ \E c \in Configs : svc = [config |-> c, laser_status |-> 0]
    /\ cam = CamInit
    /\ det2 = Det2Init

(* An exception raised inside detect() reaches the client. *)
DetectRaisedTop ==
    /\ det.pc = "raised"
    /\ det.caller = "top"
    /\ det' = DetIdle
    /\ obs' = ObsInit
    /\ UNCHANGED << laser, outsideDetect >>

NextConfig == NextDetect \/ DetectRaisedTop

SpecConfig == InitConfig /\ [][NextConfig]_vars

(* C25: a configuration bundle that violates its validation rules is       *)
(* rejected when it is constructed, so no service ever commands the laser  *)
(* or polls the frame source with an invalid configuration.                *)
C25_InvalidConfigRejected ==
    (laser # "none" \/ det.pc \in { "capOff", "capOn" })
        => validate(svc.config) = "ok"

(***************************************************************************)
(* toggle_laser(): the only place that writes laser_status.  detect()      *)
(* commands the actuator directly and leaves laser_status alone.           *)
(***************************************************************************)
ToggleLaser ==
    /\ det.pc = "idle"
    /\ cal.pc = "idle"
    /\ IF svc.laser_status = 0
       THEN /\ laser' = "on"
            /\ svc' = [svc EXCEPT !.laser_status = 1]
       ELSE /\ laser' = "off"
            /\ svc' = [svc EXCEPT !.laser_status = 0]
    /\ UNCHANGED << robot, storage, det, obs, cal, run, hms, call, detector,
                    cam, det2 >>

NextToggle == NextDetect \/ ToggleLaser

SpecToggle == Init /\ [][NextToggle]_vars

(* C29: after any sequence of toggle_laser() and detect() calls on one     *)
(* service, laser_status is 1 exactly when the last command sent to the    *)
(* laser actuator was turnOn.                                              *)
C29_StatusTracksLaser ==
    det.pc = "idle" => (svc.laser_status = 1 <=> laser = "on")

(***************************************************************************)
(* Safety floor of the sweep.  min_safety_z_mm is a setting of the         *)
(* positioner (robot_calibration_settings), here two steps below the       *)
(* initial pose.  check_min_safety_limit() is defined by the engine;       *)
(* calibrate() and move_down_by_mm() never call it, and the flag           *)
(* check_safety_limits is read nowhere.                                    *)
(***************************************************************************)
min_safety_z_mm == 7
check_safety_limits == TRUE

check_min_safety_limit(current_pos) ==
    IF current_pos = None THEN FALSE
    ELSE IF Val(current_pos)[3] <= min_safety_z_mm THEN FALSE
    ELSE TRUE

(* C27: with check_safety_limits enabled, calibrate() never commands a     *)
(* downward step while the positioner's current Z is at or below           *)
(* min_safety_z_mm: the check gates every move_down_by_mm of the sweep.    *)
C27_SafetyGatesDescent ==
    [][(check_safety_limits /\ run'.downCmds > run.downCmds)
          => check_min_safety_limit(Some(robot))]_vars

(* C30: every recorded calibration sample (h, d) has h equal to the total  *)
(* downward displacement commanded to the positioner since the zero        *)
(* reference; no sample labelled i * step_size_mm is recorded for a height *)
(* the positioner was never sent to.                                       *)
C30_HeightIsCommandedDescent ==
    [][run'.appended > run.appended
          => cal'.calibration_data[Len(cal'.calibration_data)][1]
                = run.downCmds * step_size_mm]_vars

(***************************************************************************)
(* Frame source on its own thread (frame_grabber.py): _grab_loop appends   *)
(* each captured frame to the buffer and get_latest returns the newest     *)
(* one, however old it is.  A frame is named by the laser state it was     *)
(* produced in; "none" is a frame from before any laser command.           *)
(***************************************************************************)
Grab ==
    /\ cam' = [cam EXCEPT !.latest = Some(laser)]
    /\ UNCHANGED << laser, robot, storage, det, obs, cal, run, hms, call,
                    detector, svc, det2 >>

DetectCaptureOffCam == DetectCaptureOffOf(cam.latest)

DetectCaptureOnCam == DetectCaptureOnOf(cam.latest)

NextFrames ==
    \/ DetectCallTop
    \/ DetectAttempt
    \/ DetectCaptureOffCam
    \/ DetectOffDone
    \/ DetectCaptureOnCam
    \/ DetectOnDone
    \/ DetectReturnTop
    \/ Grab

SpecFrames == Init /\ [][NextFrames]_vars

(* C28: with the frame source producing frames on its own thread, every    *)
(* frame that enters the OFF median of an attempt was produced after that  *)
(* attempt's laser-OFF command and every frame that enters the ON median   *)
(* after its laser-ON command; a stale frame from the other laser state is *)
(* never included.                                                         *)
C28_FramesAreFresh ==
    /\ det.off_srcs \subseteq { "off" }
    /\ det.on_srcs \subseteq { "on" }

(***************************************************************************)
(* A second detect() in flight on the same laser (another thread of the    *)
(* client).  Its polls touch nothing shared, so each phase is one step.    *)
(* The service takes no lock: a call enters whatever else is in flight.    *)
(***************************************************************************)
Detect2Start ==
    /\ det2.pc = "idle"
    /\ MayEnter(det.pc # "idle")
    /\ det2' = [pc |-> "attempt", attempt |-> 0]
    /\ UNCHANGED << laser, robot, storage, det, obs, cal, run, hms, call,
                    detector, svc, cam >>

Detect2Attempt ==
    /\ det2.pc = "attempt"
    /\ IF AttemptsLeft(det2.attempt)
       THEN /\ laser' = "off"
            /\ det2' = [det2 EXCEPT !.pc = "capOff"]
       ELSE /\ det2' = Det2Init
            /\ UNCHANGED laser
    /\ UNCHANGED << robot, storage, det, obs, cal, run, hms, call,
                    detector, svc, cam >>

Detect2OffDone ==
    /\ det2.pc = "capOff"
    /\ \E short \in BOOLEAN :
          IF short
          THEN /\ det2' = [det2 EXCEPT !.pc = "attempt", !.attempt = @ + 1]
               /\ UNCHANGED laser
          ELSE /\ laser' = "on"
               /\ det2' = [det2 EXCEPT !.pc = "capOn"]
    /\ UNCHANGED << robot, storage, det, obs, cal, run, hms, call,
                    detector, svc, cam >>

Detect2OnDone ==
    /\ det2.pc = "capOn"
    /\ \E returns \in BOOLEAN :
          det2' = IF returns THEN Det2Init
                  ELSE [det2 EXCEPT !.pc = "attempt", !.attempt = @ + 1]
    /\ UNCHANGED << laser, robot, storage, det, obs, cal, run, hms, call,
                    detector, svc, cam >>

NextShared ==
    \/ NextDetect
    \/ Detect2Start
    \/ Detect2Attempt
    \/ Detect2OffDone
    \/ Detect2OnDone

SpecShared == Init /\ [][NextShared]_vars

(* C26: nothing in the core enforces single-flight use: while one          *)
(* operation is in flight a second one on the same laser can always enter, *)
(* so an interleaving is reachable in which one operation captures its     *)
(* ON-phase frames after the other has commanded the laser OFF.            *)
C26_NoSingleFlight ==
    (det.pc # "idle" /\ det2.pc = "idle") => ENABLED Detect2Start

(* The first call is in its ON phase and holds a frame taken after the     *)
(* second call commanded the laser OFF.                                    *)
C26_Witness ==
    /\ det.pc = "capOn"
    /\ "off" \in det.on_srcs
    /\ det2.pc = "capOff"

====
